---- MODULE Spec2Model ----
(***************************************************************************)
(* Model of merkle/src/proof.rs: the Merkle inclusion proof Proof<T>, its  *)
(* constructor, accessors, validation fold and byte (de)serialisation.     *)
(*                                                                         *)
(* T is modelled as a two-byte hash value read as a natural number.        *)
(* Sequences are 1-based in TLA+; the source's 0-based vec[i] is At(vec,i).*)
(***************************************************************************)
EXTENDS Integers, Sequences, FiniteSets, TLC

\* ------------------------------------------------------------------ bounds
\* longest lemma given to new / encoded for from_bytes
MaxLen == 4
\* lemma entries are drawn from 0..MaxHash
MaxHash == 1
\* completed validate calls tracked on one proof object
MaxRuns == 2

HashVals == 0..MaxHash
\* longest path drawn: that of the longest well-formed proof
MaxPath == MaxLen - 2

RECURSIVE SeqsUpTo(_, _)
\* all sequences over S of length 0..n
SeqsUpTo(S, n) ==
    IF n = 0 THEN {<<>>}
    ELSE LET shorter == SeqsUpTo(S, n - 1)
         IN shorter \cup {Append(s, x) : s \in {t \in shorter : Len(t) = n - 1}, x \in S}

Lemmas == SeqsUpTo(HashVals, MaxLen)
Paths == SeqsUpTo(BOOLEAN, MaxPath)

\* vec[i] with the source's 0-based index
At(vec, i) == vec[i + 1]

\* ------------------------------------------------- the proof value
\* struct Proof { lemma: Vec<T>, path: Vec<bool> }
Proof(l, p) == [lemma |-> l, path |-> p]
\* no proof object exists (before construction)
NoProof == [lemma |-> <<>>, path |-> <<>>]

\* ------------------------------------------------- hash combiner (Algorithm<T>)
\* the combiners the program may be instantiated with
Algs == {"pair", "sum", "first"}

\* the combination each algorithm computes from a clean state
Base(alg, left, right) ==
    CASE alg = "pair"   -> ((left + right) * (left + right + 1)) \div 2 + right
      [] alg = "sum"    -> left + right
      [] alg = "first"  -> left

\* A::default(): a fresh instance, nothing absorbed
DefaultAlg == [dirty |-> 0]
\* a.reset(): clears the internal state in place
AlgReset(a) == [a EXCEPT !.dirty = 0]
\* value returned by a.node(left, right): state left over from earlier
\* combinations leaks into the result
AlgNodeOut(alg, a, left, right) == Base(alg, left, right) + a.dirty
\* instance state after a.node(left, right)
AlgNodeState(a) == [a EXCEPT !.dirty = a.dirty + 1]

\* ------------------------------------------------- byte codec (derive(Encode, Decode))
\* compact length prefix, single-byte mode (n < 64)
EncodeCompact(n) == <<n * 4>>
\* one hash value: two bytes, little endian
EncodeT(x) == <<x % 256, x \div 256>>
\* one direction bit: one byte
EncodeBool(b) == <<IF b THEN 1 ELSE 0>>

RECURSIVE EncodeItems(_, _, _)
\* elements k.. of vec, each encoded as a bool or as a hash, concatenated
EncodeItems(vec, k, isBool) ==
    IF k > Len(vec) THEN <<>>
    ELSE (IF isBool THEN EncodeBool(vec[k]) ELSE EncodeT(vec[k]))
         \o EncodeItems(vec, k + 1, isBool)

\* Vec<_>::encode: count, then the elements
EncodeVec(vec, isBool) == EncodeCompact(Len(vec)) \o EncodeItems(vec, 1, isBool)

\* Proof::encode as derived: the fields in declaration order
EncodeProof(p) == EncodeVec(p.lemma, FALSE) \o EncodeVec(p.path, TRUE)

\* decoder results: ok flag, decoded value, next read position (1-based)
DecErr == [ok |-> FALSE, val |-> 0, pos |-> 0]

\* compact length prefix at pos (single-byte mode)
DecodeCompact(bytes, pos) ==
    IF pos > Len(bytes) THEN DecErr
    ELSE IF bytes[pos] % 4 # 0 THEN DecErr
    ELSE [ok |-> TRUE, val |-> bytes[pos] \div 4, pos |-> pos + 1]

\* one hash value at pos
DecodeT(bytes, pos) ==
    IF pos + 1 > Len(bytes) THEN DecErr
    ELSE [ok |-> TRUE, val |-> bytes[pos] + 256 * bytes[pos + 1], pos |-> pos + 2]

\* one direction bit at pos: 0 or 1, anything else is an error
DecodeBool(bytes, pos) ==
    IF pos > Len(bytes) THEN DecErr
    ELSE IF bytes[pos] = 0 THEN [ok |-> TRUE, val |-> FALSE, pos |-> pos + 1]
    ELSE IF bytes[pos] = 1 THEN [ok |-> TRUE, val |-> TRUE, pos |-> pos + 1]
    ELSE DecErr

RECURSIVE DecodeItems(_, _, _, _, _)
\* n more elements from pos, appended to acc
DecodeItems(bytes, pos, n, isBool, acc) ==
    IF n = 0 THEN [ok |-> TRUE, val |-> acc, pos |-> pos]
    ELSE LET e == IF isBool THEN DecodeBool(bytes, pos) ELSE DecodeT(bytes, pos)
         IN IF ~e.ok THEN [ok |-> FALSE, val |-> <<>>, pos |-> 0]
            ELSE DecodeItems(bytes, e.pos, n - 1, isBool, Append(acc, e.val))

\* Vec<_>::decode: count, then that many elements
DecodeVec(bytes, pos, isBool) ==
    LET c == DecodeCompact(bytes, pos)
    IN IF ~c.ok THEN [ok |-> FALSE, val |-> <<>>, pos |-> 0]
       ELSE DecodeItems(bytes, c.pos, c.val, isBool, <<>>)

\* a decoder that reads the two fields in the wrong order
DecodeProofSwapped(bytes) ==
    LET p == DecodeVec(bytes, 1, TRUE)
    IN IF ~p.ok THEN [ok |-> FALSE, proof |-> NoProof]
       ELSE LET l == DecodeVec(bytes, p.pos, FALSE)
            IN IF ~l.ok THEN [ok |-> FALSE, proof |-> NoProof]
               ELSE [ok |-> TRUE, proof |-> Proof(l.val, p.val)]

\* Proof::decode as derived: lemma, then path; trailing input is ignored
DecodeProof(bytes) ==
    LET l == DecodeVec(bytes, 1, FALSE)
    IN IF ~l.ok THEN [ok |-> FALSE, proof |-> NoProof]
       ELSE LET p == DecodeVec(bytes, l.pos, TRUE)
            IN IF ~p.ok THEN [ok |-> FALSE, proof |-> NoProof]
               ELSE [ok |-> TRUE, proof |-> Proof(l.val, p.val)]

\* ------------------------------------------------- state
VARIABLES
    alg,         \* the Algorithm<T> the program validates with
    proof,       \* the proof object (NoProof while none exists)
    origin,      \* how the proof object was built: "none", "new", "from_bytes"
    op,          \* the last operation that ran
    status,      \* its outcome: "ok", "err" (decode error), "panic"
    ret,         \* its return value
    inLemma,     \* lemma argument of the last new
    inPath,      \* path argument of the last new
    inBytes,     \* argument of the last from_bytes
    pc,          \* position inside validate: "idle", "loop", "node"
    size,        \* validate: size
    h,           \* validate: h
    i,           \* validate: loop index
    a,           \* validate: the combiner instance
    created,     \* combiner instances created by the current validate call
    calls,       \* calls made on the combiner by the current validate call
    pathReads,   \* reads of self.path by the current validate call
    runs,        \* validate calls completed on the proof object
    firstResult, \* result of the first of them, as a sequence of at most one boolean
    base         \* the proof this one was derived from, and how

vars == <<alg, proof, origin, op, status, ret, inLemma, inPath, inBytes, pc, size, h, i,
          a, created, calls, pathReads, runs, firstResult, base>>

ctor == <<proof, origin, inLemma, inPath, inBytes, base>>
locals == <<pc, size, h, i, a, created, calls, pathReads>>
hist == <<runs, firstResult>>

NoBase == [kind |-> "none", k |-> 0, proof |-> NoProof, origin |-> "none"]

Init ==
    /\ alg \in Algs
    /\ proof = NoProof
    /\ origin = "none"
    /\ op = "init"
    /\ status = "ok"
    /\ ret = 0
    /\ inLemma = <<>>
    /\ inPath = <<>>
    /\ inBytes = <<>>
    /\ pc = "idle"
    /\ size = 0
    /\ h = 0
    /\ i = 0
    /\ a = DefaultAlg
    /\ created = 0
    /\ calls = <<>>
    /\ pathReads = 0
    /\ runs = 0
    /\ firstResult = <<>>
    /\ base = NoBase

\* ------------------------------------------------- construction
\* a constructor whose first assertion is hash.len() >= 2
NewOutcomeLoose(hash, path) ==
    IF ~(Len(hash) >= 2) THEN [ok |-> FALSE, proof |-> NoProof]
    ELSE IF Len(hash) - 2 # Len(path) THEN [ok |-> FALSE, proof |-> NoProof]
    ELSE [ok |-> TRUE, proof |-> Proof(hash, path)]

\* Proof::new: the two assertions, then the struct
NewOutcome(hash, path) ==
    IF ~(Len(hash) > 2) THEN [ok |-> FALSE, proof |-> NoProof]
    ELSE IF Len(hash) - 2 # Len(path) THEN [ok |-> FALSE, proof |-> NoProof]
    ELSE [ok |-> TRUE, proof |-> Proof(hash, path)]

\* a from_bytes that re-checks the constructor's invariants after decoding
FromBytesChecked(bytes) ==
    LET r == DecodeProof(bytes)
    IN IF r.ok /\ Len(r.proof.lemma) > 2 /\ Len(r.proof.path) = Len(r.proof.lemma) - 2
       THEN r
       ELSE [ok |-> FALSE, proof |-> NoProof]

\* Proof::from_bytes: Decode::decode(..).ok_or(())
FromBytesOutcome(bytes) == DecodeProof(bytes)

\* a caller runs new(hash, path); a failed assertion aborts
CallNew(hash, path, from) ==
    LET r == NewOutcome(hash, path)
    IN /\ op' = "new"
       /\ inLemma' = hash
       /\ inPath' = path
       /\ inBytes' = <<>>
       /\ status' = IF r.ok THEN "ok" ELSE "panic"
       /\ proof' = r.proof
       /\ origin' = IF r.ok THEN "new" ELSE "none"
       /\ ret' = 0
       /\ base' = from
       /\ runs' = 0
       /\ firstResult' = <<>>
       /\ UNCHANGED <<alg, locals>>

\* a caller runs from_bytes(bytes); a decode error is returned as Err(())
CallFromBytes(bytes, from) ==
    LET r == FromBytesOutcome(bytes)
    IN /\ op' = "from_bytes"
       /\ inBytes' = bytes
       /\ inLemma' = <<>>
       /\ inPath' = <<>>
       /\ status' = IF r.ok THEN "ok" ELSE "err"
       /\ proof' = r.proof
       /\ origin' = IF r.ok THEN "from_bytes" ELSE "none"
       /\ ret' = 0
       /\ base' = from
       /\ runs' = 0
       /\ firstResult' = <<>>
       /\ UNCHANGED <<alg, locals>>

\* first n elements of a sequence
Prefix(s, n) == SubSeq(s, 1, n)

\* byte strings given to from_bytes: every encoding of a (lemma, path) pair,
\* and of the short ones every truncation, one with a trailing byte and one
\* with a byte that is no bool
ByteInputs ==
    LET encs == {EncodeProof(Proof(l, p)) : l \in Lemmas, p \in Paths}
        short == {e \in encs : Len(e) <= 6}
    IN encs
       \cup UNION {{Prefix(e, n) : n \in 0..Len(e)} : e \in short}
       \cup {Append(e, 7) : e \in short}
       \cup {[e EXCEPT ![Len(e)] = 2] : e \in {x \in short : x[Len(x)] = 1}}

New ==
    /\ op = "init"
    /\ \E hash \in Lemmas, path \in Paths : CallNew(hash, path, NoBase)

FromBytes ==
    /\ op = "init"
    /\ \E bytes \in ByteInputs : CallFromBytes(bytes, NoBase)

\* ------------------------------------------------- accessors
\* a proof object exists and no call is running
Idle == pc = "idle" /\ origin # "none" /\ status = "ok"
\* the proof object is the one first built, not one derived from it
Original == base.kind = "none"

\* an accessor returned v
Returns(name, v) ==
    /\ op' = name
    /\ ret' = v
    /\ status' = "ok"
    /\ UNCHANGED <<alg, ctor, locals, hist>>

\* an unwrap of None
Panics(name) ==
    /\ op' = name
    /\ ret' = 0
    /\ status' = "panic"
    /\ UNCHANGED <<alg, ctor, locals, hist>>

\* self.lemma.first().unwrap().clone()
Item ==
    /\ Idle
    /\ Original
    /\ IF Len(proof.lemma) = 0 THEN Panics("item") ELSE Returns("item", At(proof.lemma, 0))

\* self.lemma.last().unwrap().clone()
Root ==
    /\ Idle
    /\ Original
    /\ IF Len(proof.lemma) = 0 THEN Panics("root")
       ELSE Returns("root", At(proof.lemma, Len(proof.lemma) - 1))

\* self.lemma.clone()
GetLemma == Idle /\ Original /\ Returns("lemma", proof.lemma)

\* self.path.clone()
GetPath == Idle /\ Original /\ Returns("path", proof.path)

\* self.encode()
IntoBytes ==
    /\ Idle
    /\ Original
    /\ op' = "into_bytes"
    /\ ret' = EncodeProof(proof)
    /\ status' = "ok"
    /\ UNCHANGED <<alg, ctor, locals, hist>>

\* ------------------------------------------------- validate
\* an h that survives from the previous validate call
StaleH == IF runs > 0 THEN h ELSE At(proof.lemma, 0)

\* let mut h = self.item()
FreshH == At(proof.lemma, 0)

\* a loop over 1..size - 2, which leaves the last sibling out
LoopContinuesShort == i < size - 2

\* a loop over 1..size, which runs once more
LoopContinuesLong == i < size

\* for i in 1..size - 1: the loop has another iteration
LoopContinues == i < size - 1

\* entry: the size check, h = self.item(), a = A::default()
ValidateBegin ==
    /\ Idle
    /\ base.kind # "reload"
    /\ runs < (IF Original THEN MaxRuns ELSE 1)
    /\ op' = "validate"
    /\ size' = Len(proof.lemma)
    /\ calls' = <<>>
    /\ pathReads' = 0
    /\ i' = 1
    /\ IF Len(proof.lemma) < 2
       THEN /\ ret' = FALSE
            /\ status' = "ok"
            /\ pc' = "idle"
            /\ created' = 0
            /\ runs' = runs + 1
            /\ firstResult' = IF runs = 0 THEN <<FALSE>> ELSE firstResult
            /\ UNCHANGED <<h, a>>
       ELSE /\ h' = FreshH
            /\ a' = DefaultAlg
            /\ created' = 1
            /\ pc' = "loop"
            /\ status' = "ok"
            /\ UNCHANGED <<ret, runs, firstResult>>
    /\ UNCHANGED <<alg, ctor>>

\* loop head taken (i in 1..size-1), then a.reset()
ValidateReset ==
    /\ pc = "loop"
    /\ LoopContinues
    /\ a' = AlgReset(a)
    /\ calls' = Append(calls, "reset")
    /\ pc' = "node"
    /\ UNCHANGED <<alg, ctor, hist, op, status, ret, size, h, i, created, pathReads>>

\* an iteration that passes the operands in the opposite order
NodeStepSwapped(bit, hh, sibling) ==
    IF bit THEN AlgNodeOut(alg, a, sibling, hh) ELSE AlgNodeOut(alg, a, hh, sibling)

\* an iteration that ignores the direction bit
NodeStepNoBit(bit, hh, sibling) == AlgNodeOut(alg, a, hh, sibling)

\* the value h takes in iteration i, given the direction bit read
NodeStep(bit, hh, sibling) ==
    IF bit THEN AlgNodeOut(alg, a, hh, sibling) ELSE AlgNodeOut(alg, a, sibling, hh)

\* self.path[i - 1] read (out of range: panic), then a.node(..) in the bit's order
ValidateNode ==
    /\ pc = "node"
    /\ pathReads' = pathReads + 1
    /\ IF i - 1 >= Len(proof.path)
       THEN /\ status' = "panic"
            /\ pc' = "idle"
            /\ UNCHANGED <<h, a, i, calls>>
       ELSE /\ h' = NodeStep(At(proof.path, i - 1), h, At(proof.lemma, i))
            /\ a' = AlgNodeState(a)
            /\ calls' = Append(calls, "node")
            /\ i' = i + 1
            /\ pc' = "loop"
            /\ UNCHANGED status
    /\ UNCHANGED <<alg, ctor, hist, op, ret, size, created>>

\* loop exhausted: h == self.root()
ValidateReturn ==
    /\ pc = "loop"
    /\ ~LoopContinues
    /\ ret' = (h = At(proof.lemma, Len(proof.lemma) - 1))
    /\ pc' = "idle"
    /\ runs' = runs + 1
    /\ firstResult' = IF runs = 0 THEN <<ret'>> ELSE firstResult
    /\ UNCHANGED <<alg, ctor, op, status, size, h, i, a, created, calls, pathReads>>

\* ------------------------------------------------- callers deriving a second proof
\* rebuilds a proof the way the proof it is derived from was built
Rebuild(l, p, from) ==
    IF origin = "new" THEN CallNew(l, p, from)
    ELSE CallFromBytes(EncodeProof(Proof(l, p)), from)

Accepted == Idle /\ Original /\ op = "validate" /\ ret = TRUE

\* an accepted proof is rebuilt with one direction bit the fold reads flipped
TamperFlip ==
    /\ Accepted
    /\ \E k \in 0..(Len(proof.path) - 1) :
          /\ k <= Len(proof.lemma) - 3
          /\ Rebuild(proof.lemma, [proof.path EXCEPT ![k + 1] = ~proof.path[k + 1]],
                     [kind |-> "flip", k |-> k, proof |-> proof, origin |-> origin])

\* an accepted proof is rebuilt with one intermediate lemma entry replaced
TamperReplace ==
    /\ Accepted
    /\ \E k \in 1..(Len(proof.lemma) - 2), v \in HashVals :
          /\ v # At(proof.lemma, k)
          /\ Rebuild([proof.lemma EXCEPT ![k + 1] = v], proof.path,
                     [kind |-> "replace", k |-> k, proof |-> proof, origin |-> origin])

\* the bytes into_bytes returned are given to from_bytes
Reload ==
    /\ Idle
    /\ Original
    /\ op = "into_bytes"
    /\ CallFromBytes(ret, [kind |-> "reload", k |-> 0, proof |-> proof, origin |-> origin])

Next ==
    \/ New
    \/ FromBytes
    \/ Item
    \/ Root
    \/ GetLemma
    \/ GetPath
    \/ IntoBytes
    \/ ValidateBegin
    \/ ValidateReset
    \/ ValidateNode
    \/ ValidateReturn
    \/ TamperFlip
    \/ TamperReplace
    \/ Reload

Spec == Init /\ [][Next]_vars

\* ------------------------------------------------- properties
\* validate has returned
ValidateDone == op = "validate" /\ pc = "idle" /\ status = "ok"
\* validate is over: it returned or it panicked
ValidateOver == op = "validate" /\ pc = "idle"
\* last index of the lemma
LastIdx == Len(proof.lemma) - 1

RECURSIVE FoldH(_, _, _, _)
\* h_k of the fold: h_0 = lemma[0], h_k = node(h_{k-1}, lemma[k]) when
\* path[k-1] is true and node(lemma[k], h_{k-1}) when it is false
FoldH(algo, l, p, k) ==
    IF k = 0 THEN At(l, 0)
    ELSE LET prev == FoldH(algo, l, p, k - 1)
         IN IF At(p, k - 1) THEN Base(algo, prev, At(l, k)) ELSE Base(algo, At(l, k), prev)

\* the combiners that are injective on ordered pairs (checked on a small square)
CollisionFree ==
    {x \in Algs : \A p, q \in (0..(MaxHash + 2)) \X (0..(MaxHash + 2)) :
                      Base(x, p[1], p[2]) = Base(x, q[1], q[2]) => p = q}

\* C1: on a proof built by new, validate returns true exactly when the fold
\* h_{N-2} equals lemma[N-1]; for N = 3 that is node(lemma[0], lemma[1]) =
\* lemma[2] for path [true] and node(lemma[1], lemma[0]) = lemma[2] for [false].
C1_ValidateIsFold ==
    (ValidateDone /\ origin = "new") =>
        /\ ret = (FoldH(alg, proof.lemma, proof.path, LastIdx - 1) = At(proof.lemma, LastIdx))
        /\ Len(proof.lemma) = 3 =>
              ret = ((IF At(proof.path, 0)
                      THEN Base(alg, At(proof.lemma, 0), At(proof.lemma, 1))
                      ELSE Base(alg, At(proof.lemma, 1), At(proof.lemma, 0)))
                     = At(proof.lemma, 2))

C1_Witness ==
    /\ ValidateDone
    /\ origin = "new"
    /\ alg = "pair"
    /\ Len(proof.lemma) = 4
    /\ At(proof.path, 0) # At(proof.path, 1)
    /\ At(proof.lemma, 2) # At(proof.lemma, 1)
    /\ ret = TRUE

\* the shapes new rejects
BadShape(l, p) == Len(l) <= 2 \/ Len(p) # Len(l) - 2

\* C2: new fails fatally exactly when lemma.len() <= 2 or path.len() #
\* lemma.len() - 2, and then no proof object exists; otherwise the proof's
\* lemma() and path() are the given sequences, item() is lemma[0] and root()
\* is lemma[last]; every proof built by new has the two length invariants.
C2_NewContract ==
    /\ op = "new" =>
          /\ (status = "panic") = BadShape(inLemma, inPath)
          /\ status = "panic" => (origin = "none" /\ proof = NoProof)
          /\ status # "panic" => (status = "ok" /\ origin = "new")
    /\ origin = "new" =>
          /\ proof.lemma = inLemma
          /\ proof.path = inPath
          /\ Len(proof.lemma) > 2
          /\ Len(proof.path) = Len(proof.lemma) - 2
          /\ op = "item" => (status = "ok" /\ ret = At(inLemma, 0))
          /\ op = "root" => (status = "ok" /\ ret = At(inLemma, Len(inLemma) - 1))
          /\ op = "lemma" => ret = inLemma
          /\ op = "path" => ret = inPath

C2_Witness ==
    /\ origin = "new"
    /\ op = "root"
    /\ Len(inLemma) = 4
    /\ At(inLemma, 0) # At(inLemma, 3)
    /\ ret = At(inLemma, 3)

\* C3: validate is total over every proof value: it never panics, always
\* returns a boolean, and returns false when the lemma has fewer than 2 entries.
C3_ValidateTotal ==
    ValidateOver =>
        /\ status # "panic"
        /\ ret \in BOOLEAN
        /\ Len(proof.lemma) < 2 => ret = FALSE

\* C4: from_bytes(into_bytes(p)) is Ok(q) with q equal to p for every p built
\* by new, and two encodings of the same proof are the same bytes.
C4_RoundTrip ==
    [][/\ (base'.kind = "reload" /\ base'.origin = "new") =>
              (status' = "ok" /\ origin' = "from_bytes" /\ proof' = base'.proof)
       /\ (op = "into_bytes" /\ op' = "into_bytes") => ret' = ret]_vars

C4_Witness ==
    /\ base.kind = "reload"
    /\ base.origin = "new"
    /\ status = "ok"
    /\ Len(proof.lemma) = 4
    /\ proof.path = <<TRUE, FALSE>>
    /\ proof = base.proof

\* C5: under a collision-free combiner, flipping one direction bit path[k] of
\* an accepted proof makes validate return false, unless the operands of that
\* step, h_k and lemma[k+1], are equal, and then it still returns true.
C5_FlipRejected ==
    (ValidateDone /\ base.kind = "flip" /\ alg \in CollisionFree) =>
        ret = (FoldH(alg, base.proof.lemma, base.proof.path, base.k)
               = At(base.proof.lemma, base.k + 1))

C5_Witness ==
    /\ ValidateDone
    /\ base.kind = "flip"
    /\ alg \in CollisionFree
    /\ base.k = 1
    /\ ret = FALSE

\* C6: under a collision-free combiner, replacing one intermediate entry
\* lemma[k], 1 <= k <= N-2, of an accepted proof by a different value makes
\* validate return false.
C6_ReplaceRejected ==
    (ValidateDone /\ base.kind = "replace" /\ alg \in CollisionFree) => ret = FALSE

C6_Witness ==
    /\ ValidateDone
    /\ base.kind = "replace"
    /\ alg \in CollisionFree
    /\ base.k = 2
    /\ proof.lemma # base.proof.lemma
    /\ ret = FALSE

\* the calls that only read the proof
ReadOps == {"validate", "item", "root", "lemma", "path", "into_bytes"}

\* C7: validate, item, root, lemma, path and into_bytes never change the
\* proof's lemma or path, and every validate call on the same proof returns
\* what the first one returned.
C7_Idempotent ==
    [][(origin # "none" /\ op' \in ReadOps) =>
          /\ proof' = proof
          /\ (runs' = runs + 1 /\ runs > 0) => ret' = firstResult[1]]_vars

C7_Witness ==
    /\ ValidateDone
    /\ Original
    /\ runs = 2
    /\ Len(proof.lemma) = 4
    /\ ret = TRUE
    /\ firstResult = <<TRUE>>

\* every (lemma, path) pair with its encoding
EncTable == {<<EncodeProof(Proof(l, p)), Proof(l, p)>> : l \in Lemmas, p \in Paths}

\* C8: from_bytes of a well-formed encoding of any (lemma, path) pair returns
\* Ok with exactly that lemma and path, also for shapes new rejects.
C8_FromBytesUnchecked ==
    op = "from_bytes" =>
        \A e \in EncTable :
            e[1] = inBytes => (status = "ok" /\ origin = "from_bytes" /\ proof = e[2])

C8_Witness ==
    /\ op = "from_bytes"
    /\ status = "ok"
    /\ origin = "from_bytes"
    /\ inBytes = EncodeProof(proof)
    /\ Len(proof.lemma) = 2
    /\ Len(proof.path) = 1
    /\ BadShape(proof.lemma, proof.path)

RECURSIVE ResetNode(_)
\* (reset, node) repeated n times
ResetNode(n) == IF n <= 0 THEN <<>> ELSE <<"reset", "node">> \o ResetNode(n - 1)

\* C9: a validate call on a lemma of length N >= 2 creates one combiner and
\* calls on it exactly (reset, node) N-2 times, the loop ending after N-2
\* iterations.
C9_ResetThenNode ==
    (ValidateOver /\ Len(proof.lemma) >= 2) =>
        /\ created = 1
        /\ calls = ResetNode(Len(proof.lemma) - 2)
        /\ i = Len(proof.lemma) - 1

\* C10: on a lemma of exactly 2 entries validate makes no reset and no node
\* call, never reads the path, and returns lemma[0] = lemma[1].
C10_TwoEntryLemma ==
    (ValidateDone /\ Len(proof.lemma) = 2) =>
        /\ calls = <<>>
        /\ pathReads = 0
        /\ ret = (At(proof.lemma, 0) = At(proof.lemma, 1))

C10_Witness ==
    /\ ValidateDone
    /\ origin = "from_bytes"
    /\ Len(proof.lemma) = 2
    /\ Len(proof.path) = 1
    /\ alg = "pair"
    /\ ret = TRUE

====
